---- MODULE Spec2Model ----
(***************************************************************************)
(* Model of adita: the ABI-to-TypeScript generator.                        *)
(*   src/src/index.ts          getAbiKey, removeDuplicateAbis, main        *)
(*   src/unnamed/part_001:1-152 (codegen.ts) createLiteralFor,             *)
(*       createObjectFromObject, createFragmentDeclaration,                *)
(*       createContractFileForAbi                                          *)
(*                                                                         *)
(* Strings are sequences of tokens.  The tokens in use form a prefix-free  *)
(* set (no token is a prefix of another), so two token sequences are equal *)
(* exactly when the strings they spell are equal, and the code-unit order  *)
(* of two strings is the lexicographic order of their token sequences.     *)
(***************************************************************************)
EXTENDS Integers, Sequences, FiniteSets, TLC

\* ------------------------------------------------------------------ bounds
MaxEntries == 2

MaxAbiLen == 1

MaxFragments == 3

MaxDepth == 2

\* ----------------------------------------------------------------- strings
\* The tokens in increasing UTF-16 code-unit order (',' 2C  ':' 3A  'A' 41
\* '[' 5B  '_' 5F  'a' 61  'c' 63  'd' 64  'e' 65  'f' 66  't' 74  'u' 75
\* 'v' 76); tokens with the same first letter are ordered by the first
\* character in which they differ.
CodeUnitOrder ==
  << ",", ":", "Array", "[]", "_", "address", "amount", "constructor",
     "dst", "event", "fallback", "function", "toString", "transfer",
     "uint256", "view" >>

Rank(tok) == CHOOSE k \in 1..Len(CodeUnitOrder) : CodeUnitOrder[k] = tok

\* s < t in the order Array.prototype.sort() uses when no comparator is given
StrLess(s, t) ==
  \E k \in 1..Len(t) :
     /\ k <= Len(s) + 1
     /\ \A m \in 1..(k - 1) : s[m] = t[m]
     /\ \/ k = Len(s) + 1
        \/ k <= Len(s) /\ Rank(s[k]) < Rank(t[k])

\* the value `undefined` of an optional string property
Undefined == << "#undefined" >>

\* the value `undefined` of an optional list property (a list no JSON
\* document holds: its one descriptor has no type)
UndefinedList == << [ name |-> Undefined, type |-> Undefined ] >>

\* JavaScript truthiness of an optional string: undefined and '' are falsy
Truthy(s) == s # Undefined /\ s # << >>

\* list.join(sep)
RECURSIVE Join(_, _)
Join(list, sep) ==
  IF Len(list) = 0 THEN << >>
  ELSE IF Len(list) = 1 THEN list[1]
  ELSE list[1] \o sep \o Join(Tail(list), sep)

RECURSIVE InsertSorted(_, _)
InsertSorted(x, sorted) ==
  IF Len(sorted) = 0 THEN << x >>
  ELSE IF StrLess(x, sorted[1]) THEN << x >> \o sorted
  ELSE << sorted[1] >> \o InsertSorted(x, Tail(sorted))

\* list.sort() on a list of strings
RECURSIVE Sort(_)
Sort(list) ==
  IF Len(list) = 0 THEN << >>
  ELSE InsertSorted(list[1], Sort(Tail(list)))

\* type.replace('[]', 'Array'): a string pattern replaces the FIRST match only
RECURSIVE ReplaceFirst(_)
ReplaceFirst(type) ==
  IF Len(type) = 0 THEN << >>
  ELSE IF type[1] = "[]" THEN << "Array" >> \o Tail(type)
  ELSE << type[1] >> \o ReplaceFirst(Tail(type))

\* -------------------------------------------------------------- fragments
\* interface Fragment: name?, type, inputs, outputs?, stateMutability?
Frag(name, type, inputs, outputs, mut) ==
  [ name |-> name, type |-> type, inputs |-> inputs, outputs |-> outputs,
    stateMutability |-> mut ]

\* one parameter descriptor
Param(name, type) == [ name |-> name, type |-> type ]

\* -------------------------------------------------------------- index.ts
\* getAbiKey without the two sort() calls
NoSortKey(abi) ==
  LET name == IF Truthy(abi.name) THEN abi.name ELSE << >>
      type == IF Truthy(abi.type) THEN abi.type ELSE << >>
      inputTypes == IF abi.inputs # UndefinedList
                    THEN Join([k \in 1..Len(abi.inputs) |-> abi.inputs[k].type], << "," >>)
                    ELSE << >>
      outputTypes == IF abi.outputs # UndefinedList
                     THEN Join([k \in 1..Len(abi.outputs) |-> abi.outputs[k].type], << "," >>)
                     ELSE << >>
  IN name \o << ":" >> \o type \o << ":" >> \o inputTypes \o << ":" >> \o outputTypes

getAbiKey(abi) ==
  LET name == IF Truthy(abi.name) THEN abi.name ELSE << >>
      type == IF Truthy(abi.type) THEN abi.type ELSE << >>
      inputTypes == IF abi.inputs # UndefinedList
                    THEN Join(Sort([k \in 1..Len(abi.inputs) |-> abi.inputs[k].type]), << "," >>)
                    ELSE << >>
      outputTypes == IF abi.outputs # UndefinedList
                     THEN Join(Sort([k \in 1..Len(abi.outputs) |-> abi.outputs[k].type]), << "," >>)
                     ELSE << >>
  IN name \o << ":" >> \o type \o << ":" >> \o inputTypes \o << ":" >> \o outputTypes

\* the for-of loop of removeDuplicateAbis from element k on
RECURSIVE DedupLoop(_, _, _, _)
DedupLoop(abis, k, seen, uniqueAbis) ==
  IF k > Len(abis) THEN uniqueAbis
  ELSE LET key == getAbiKey(abis[k])
       IN IF key \notin seen
          THEN DedupLoop(abis, k + 1, seen \cup { key }, Append(uniqueAbis, abis[k]))
          ELSE DedupLoop(abis, k + 1, seen, uniqueAbis)

\* removeDuplicateAbis keeping the last fragment of each key, not the first
RECURSIVE LastWinsLoop(_, _)
LastWinsLoop(abis, k) ==
  IF k > Len(abis) THEN << >>
  ELSE IF \E m \in (k + 1)..Len(abis) : getAbiKey(abis[m]) = getAbiKey(abis[k])
       THEN LastWinsLoop(abis, k + 1)
       ELSE << abis[k] >> \o LastWinsLoop(abis, k + 1)

KeepLastAbis(abis) == LastWinsLoop(abis, 1)

removeDuplicateAbis(abis) == DedupLoop(abis, 1, { }, << >>)

\* ------------------------------------------------------------- JSON values
\* a parsed JSON value (or a JavaScript value that is none): tag is one of
\* "null", "boolean", "string", "number", "undefined", "array", "object"
Val(tag, bool, text, items, entries) ==
  [ tag |-> tag, bool |-> bool, text |-> text, items |-> items, entries |-> entries ]

VNull == Val("null", FALSE, << >>, << >>, << >>)

VBool(b) == Val("boolean", b, << >>, << >>, << >>)

VText(t) == Val("string", FALSE, t, << >>, << >>)

VNumber == Val("number", FALSE, << >>, << >>, << >>)

VUndefined == Val("undefined", FALSE, << >>, << >>, << >>)

VList(items) == Val("array", FALSE, << >>, items, << >>)

\* entries: the sequence of <<key, value>> pairs in property order
VObject(entries) == Val("object", FALSE, << >>, << >>, entries)

\* the typeof operator
TypeOf(value) ==
  CASE value.tag = "string" -> "string"
    [] value.tag = "boolean" -> "boolean"
    [] value.tag = "number" -> "number"
    [] value.tag = "undefined" -> "undefined"
    [] OTHER -> "object"

\* Array.isArray
IsArray(value) == value.tag = "array"

\* the parameter descriptor as the object JSON.parse built
ParamValue(p) ==
  VObject( (IF p.name # Undefined THEN << << "name", VText(p.name) >> >> ELSE << >>)
           \o << << "type", VText(p.type) >> >> )

\* the Fragment as the object JSON.parse built
FragmentValue(f) ==
  VObject(
    (IF f.name # Undefined THEN << << "name", VText(f.name) >> >> ELSE << >>)
    \o (IF f.type # Undefined THEN << << "type", VText(f.type) >> >> ELSE << >>)
    \o (IF f.inputs # UndefinedList
        THEN << << "inputs", VList([k \in 1..Len(f.inputs) |-> ParamValue(f.inputs[k])]) >> >>
        ELSE << >>)
    \o (IF f.outputs # UndefinedList
        THEN << << "outputs", VList([k \in 1..Len(f.outputs) |-> ParamValue(f.outputs[k])]) >> >>
        ELSE << >>)
    \o (IF f.stateMutability # Undefined
        THEN << << "stateMutability", VText(f.stateMutability) >> >>
        ELSE << >>) )

\* ------------------------------------------------------------ codegen.ts
\* a literal node of the TypeScript AST; kind "TypeError" stands for the
\* exception thrown instead of a node being returned
Lit(kind, text, elements, properties) ==
  [ kind |-> kind, text |-> text, elements |-> elements, properties |-> properties ]

Threw == Lit("TypeError", << >>, << >>, << >>)

NotYetImplemented == Lit("StringLiteral", << "not yet implemented" >>, << >>, << >>)

RECURSIVE createLiteralFor(_)
RECURSIVE createObjectFromObject(_)

createLiteralFor(value) ==
  \* `case null:` compares the string typeof returns with null: never taken
  IF FALSE /\ TypeOf(value) = "null" THEN Lit("NullKeyword", << >>, << >>, << >>)
  ELSE IF TypeOf(value) = "string" THEN Lit("StringLiteral", value.text, << >>, << >>)
  ELSE IF TypeOf(value) = "boolean"
       THEN (IF value.bool THEN Lit("TrueKeyword", << >>, << >>, << >>)
                           ELSE Lit("FalseKeyword", << >>, << >>, << >>))
  ELSE IF TypeOf(value) = "object"
       THEN IF IsArray(value)
            THEN LET elements == [k \in 1..Len(value.items) |-> createLiteralFor(value.items[k])]
                 IN IF \E k \in 1..Len(elements) : elements[k] = Threw
                    THEN Threw
                    ELSE Lit("ArrayLiteralExpression", << >>, elements, << >>)
            ELSE createObjectFromObject(value)
  ELSE NotYetImplemented

createObjectFromObject(fragment) ==
  \* Object.entries(null) throws a TypeError
  IF fragment.tag = "null" THEN Threw
  ELSE LET properties ==
             [k \in 1..Len(fragment.entries) |->
                [ name |-> fragment.entries[k][1],
                  initializer |-> createLiteralFor(fragment.entries[k][2]) ]]
       IN IF \E k \in 1..Len(properties) : properties[k].initializer = Threw
          THEN Threw
          ELSE Lit("ObjectLiteralExpression", << >>, << >>, properties)

\* a statement node of the generated file
Node(kind, identifier, initializer, elements) ==
  [ kind |-> kind, identifier |-> identifier, initializer |-> initializer,
    elements |-> elements ]

NoLit == Lit("none", << >>, << >>, << >>)

\* the result of createFragmentDeclaration: the pair it returns, or threw
Declared(threw, identifier, declaration) ==
  [ threw |-> threw, identifier |-> identifier, declaration |-> declaration ]

\* `${name}_${inputs.map(input => input.type.replace('[]','Array')).join('_')}`
ExplicitIdentifierString(fragment) ==
  fragment.name \o << "_" >>
    \o Join([k \in 1..Len(fragment.inputs) |-> ReplaceFirst(fragment.inputs[k].type)],
            << "_" >>)

createFragmentDeclaration(fragment, explicitIdentifier) ==
  IF ~Truthy(fragment.name)
  THEN Declared(TRUE, << >>, Node("none", << >>, NoLit, << >>))
  ELSE IF explicitIdentifier /\ fragment.inputs = UndefinedList
  THEN Declared(TRUE, << >>, Node("none", << >>, NoLit, << >>))
  ELSE LET identifierString == IF explicitIdentifier
                               THEN ExplicitIdentifierString(fragment)
                               ELSE fragment.name
           literal == createObjectFromObject(FragmentValue(fragment))
       IN IF literal = Threw
          THEN Declared(TRUE, << >>, Node("none", << >>, NoLit, << >>))
          ELSE Declared(FALSE, identifierString,
                        Node("VariableStatement", identifierString, literal, << >>))

\* property names every object inherits from Object.prototype
ObjectPrototypeKeys ==
  { << "constructor" >>, << "hasOwnProperty" >>, << "isPrototypeOf" >>,
    << "propertyIsEnumerable" >>, << "toLocaleString" >>, << "toString" >>,
    << "valueOf" >>, << "__proto__" >> }

\* the value nameCounts[name] ends up with when it is not a number
NaN == 0 - 1

\* the filter testing `fragment.name !== undefined` instead of truthiness
AllNamed(abis) == SelectSeq(abis, LAMBDA fragment : fragment.name # Undefined)

\* abis.filter((fragment) => !!fragment.name)
filteredAbi(abis) == SelectSeq(abis, LAMBDA fragment : Truthy(fragment.name))

\* nameCounts after the first forEach.  nameCounts is a plain object: for a
\* name it inherits (a function, truthy) `+= 1` appends "1" to a string, and
\* the entry never is a number.
nameCounts(filtered) ==
  [ name \in { filtered[k].name : k \in 1..Len(filtered) } |->
      IF name \in ObjectPrototypeKeys
      THEN NaN
      ELSE Cardinality({ k \in 1..Len(filtered) : filtered[k].name = name }) ]

\* nameCounts[name] > 1
GreaterThanOne(count) == count # NaN /\ count > 1

\* the result of createContractFileForAbi: the nodes it returns, or threw
Generated(threw, nodes) == [ threw |-> threw, nodes |-> nodes ]

\* the second forEach from element k on; processedFragments holds the
\* JSON.stringify texts, one per distinct fragment value
RECURSIVE EmitLoop(_, _, _, _, _, _)
EmitLoop(filtered, counts, k, processedFragments, fragmentDeclarationIdentifiers, fragmentDeclarations) ==
  IF k > Len(filtered)
  THEN [ threw |-> FALSE, identifiers |-> fragmentDeclarationIdentifiers,
         declarations |-> fragmentDeclarations ]
  ELSE LET fragment == filtered[k]
       IN IF fragment \notin processedFragments
          THEN LET d == createFragmentDeclaration(
                          fragment, GreaterThanOne(counts[fragment.name]))
               IN IF d.threw
                  THEN [ threw |-> TRUE, identifiers |-> << >>, declarations |-> << >> ]
                  ELSE EmitLoop(filtered, counts, k + 1,
                                processedFragments \cup { fragment },
                                Append(fragmentDeclarationIdentifiers, d.identifier),
                                Append(fragmentDeclarations, d.declaration))
          ELSE EmitLoop(filtered, counts, k + 1, processedFragments,
                        fragmentDeclarationIdentifiers, fragmentDeclarations)

\* createContractFileForAbi without its early `return []`
NoEmptyReturn(abis) ==
  LET filtered == filteredAbi(abis)
      r == EmitLoop(filtered, nameCounts(filtered), 1, { }, << >>, << >>)
  IN IF r.threw THEN Generated(TRUE, << >>)
     ELSE Generated(FALSE, r.declarations
                      \o << Node("ExportAssignment", << >>, NoLit, r.identifiers) >>)

createContractFileForAbi(abis) ==
  LET filtered == filteredAbi(abis)
      r == EmitLoop(filtered, nameCounts(filtered), 1, { }, << >>, << >>)
  IN IF r.threw THEN Generated(TRUE, << >>)
     ELSE IF Len(r.identifiers) = 0 THEN Generated(FALSE, << >>)
     ELSE Generated(FALSE, r.declarations
                      \o << Node("ExportAssignment", << >>, NoLit, r.identifiers) >>)

\* ---------------------------------------------------------------- inputs
Address == << "address" >>

Uint == << "uint256" >>

UintArray == << "uint256", "[]" >>

UintArray2 == << "uint256", "[]", "[]" >>

Transfer == << "transfer" >>

Function == << "function" >>

\* the input lists of the fragments named transfer
TransferInputs ==
  { << Param(<< "dst" >>, Address) >>,
    << Param(<< "dst" >>, Address), Param(<< "amount" >>, Uint) >>,
    << Param(<< "amount" >>, Uint), Param(<< "dst" >>, Address) >>,
    << Param(Undefined, Address), Param(Undefined, Address), Param(Undefined, Uint) >>,
    << Param(<< "amount" >>, UintArray) >>,
    << Param(<< "amount" >>, UintArray2) >> }

NamedFragments ==
  { Frag(Transfer, Function, i, UndefinedList, Undefined) : i \in TransferInputs }
  \cup
  { Frag(Transfer, << "event" >>, << Param(<< "dst" >>, Address) >>, UndefinedList, Undefined),
    Frag(Transfer, Function, << Param(<< "dst" >>, Address) >>,
         << Param(Undefined, Uint) >>, Undefined),
    Frag(Transfer, Function,
         << Param(<< "dst" >>, Address), Param(<< "amount" >>, Uint) >>,
         UndefinedList, << "view" >>),
    Frag(<< "transfer", "_", "address" >>, Function, << >>, UndefinedList, Undefined),
    Frag(<< "toString" >>, Function, << Param(Undefined, Uint) >>, UndefinedList, Undefined),
    Frag(<< "toString" >>, Function, << Param(Undefined, Address) >>, UndefinedList,
         Undefined) }

UnnamedFragments ==
  { Frag(Undefined, << "constructor" >>, << Param(<< "dst" >>, Address) >>,
         UndefinedList, Undefined),
    Frag(Undefined, << "fallback" >>, << >>, UndefinedList, Undefined),
    Frag(<< >>, Function, << >>, UndefinedList, Undefined) }

\* the fragments the generator is applied to
Fragments == NamedFragments \cup UnnamedFragments

\* the fragments found in the artifacts the driver reads
ArtifactFragments ==
  { Frag(Transfer, Function, << Param(<< "dst" >>, Address) >>, UndefinedList, Undefined),
    Frag(Transfer, Function, << Param(<< "dst" >>, Address) >>, UndefinedList, << "view" >>),
    Frag(Transfer, << "event" >>, << Param(<< "dst" >>, Address) >>, UndefinedList, Undefined),
    Frag(Undefined, << "constructor" >>, << Param(<< "dst" >>, Address) >>,
         UndefinedList, Undefined) }

BoundedSeq(S, n) == UNION { [1..m -> S] : m \in 0..n }

\* one character of a string: no name, type, inputs or outputs property
CharFragment == Frag(Undefined, Undefined, UndefinedList, UndefinedList, Undefined)

\* what a file holds.  kind: "Unreadable" (readFile rejects), "InvalidJson"
\* (JSON.parse throws), "JsonNull" (the document null), "NoAbi" (no abi
\* property), "AbiNotIterable" (abi is null, a number, a boolean or an
\* object), "AbiString" (abi is a string of two characters), "AbiList"
Content(kind, abi) == [ kind |-> kind, abi |-> abi ]

Contents ==
  { Content(k, << >>) :
      k \in { "Unreadable", "InvalidJson", "JsonNull", "NoAbi", "AbiNotIterable" } }
  \cup { Content("AbiString", << CharFragment, CharFragment >>) }
  \cup { Content("AbiList", l) : l \in BoundedSeq(ArtifactFragments, MaxAbiLen) }

File(dir, name) == [ dir |-> dir, name |-> name ]

\* the files under the source directory; name is the file name split at '.'
SourceTree ==
  { File("a", << "Foo", "json" >>), File("b", << "Foo", "json" >>),
    File("a", << "Foo", "metadata", "json" >>), File("a", << "Foo", "dbg", "json" >>),
    File("a", << "Foo", "txt" >>) }

\* glob([source/**/*.json], { ignore: ['**/*.dbg.json'] })
Glob(tree) ==
  { f \in tree :
      /\ Len(f.name) >= 2
      /\ f.name[Len(f.name)] = "json"
      /\ ~(Len(f.name) >= 3 /\ f.name[Len(f.name) - 1] = "dbg") }

\* path.extname(entry), without its dot; "" when the name has no dot
ExtName(f) == IF Len(f.name) >= 2 THEN f.name[Len(f.name)] ELSE ""

\* path.basename(entry, ext), split at '.'
BaseName(f, ext) ==
  IF ext # "" /\ f.name[Len(f.name)] = ext
  THEN SubSeq(f.name, 1, Len(f.name) - 1)
  ELSE f.name

\* the output file named after the text before the FIRST dot
StripAllExtensions(f) == << f.name[1], "ts" >>

\* path.join(outDir, `${fileName}.ts`), split at '.'
OutputFile(f) == BaseName(f, ExtName(f)) \o << "ts" >>

\* ----------------------------------------------------- Map<string, Fragment[]>
\* a Map is the sequence of its [key, value] pairs in insertion order
MapHas(map, key) == \E k \in 1..Len(map) : map[k].outputFile = key

MapGet(map, key) == map[CHOOSE k \in 1..Len(map) : map[k].outputFile = key].abis

MapSet(map, key, value) ==
  IF MapHas(map, key)
  THEN [k \in 1..Len(map) |->
          IF map[k].outputFile = key THEN [ outputFile |-> key, abis |-> value ]
          ELSE map[k]]
  ELSE Append(map, [ outputFile |-> key, abis |-> value ])

\* ------------------------------------------------------------------ state
VARIABLES
  pc,                \* main: "read", "generate", "done"; "idle" outside main
  entries,           \* the entries of the glob result the first loop has taken
  abisByOutputFile,  \* the Map of main
  cursor,            \* the next pair of abisByOutputFile.entries()
  written,           \* the files written: [outputFile, lineNodes] in write order
  errors,            \* the console.error calls: [at, subject]
  abis,              \* generator: the list handed to removeDuplicateAbis
  uniqueAbis,        \* generator: its result
  lineNodes,         \* generator: the result of createContractFileForAbi
  stage,             \* generator: "input", "generated"; "idle" outside it
  value,             \* literal conversion: the value handed to createLiteralFor
  literal,           \* literal conversion: its result
  lstage             \* literal conversion: "input", "converted"; "idle"

vars == << pc, entries, abisByOutputFile, cursor, written, errors,
           abis, uniqueAbis, lineNodes, stage, value, literal, lstage >>

mainVars == << pc, entries, abisByOutputFile, cursor, written, errors >>

generatorVars == << abis, uniqueAbis, lineNodes, stage >>

literalVars == << value, literal, lstage >>

MainIdle ==
  /\ pc = "idle" /\ entries = << >> /\ abisByOutputFile = << >>
  /\ cursor = 1 /\ written = << >> /\ errors = << >>

GeneratorIdle ==
  /\ abis = << >> /\ uniqueAbis = << >>
  /\ lineNodes = Generated(FALSE, << >>) /\ stage = "idle"

LiteralIdle == value = VUndefined /\ literal = NoLit /\ lstage = "idle"

\* ------------------------------------------------------------------- main
\* the state when the first loop of main starts
Init ==
  /\ pc = "read" /\ entries = << >> /\ abisByOutputFile = << >>
  /\ cursor = 1 /\ written = << >> /\ errors = << >>
  /\ GeneratorIdle /\ LiteralIdle

\* the try block of the first loop for one entry: the Map and whether it threw
ProcessEntry(map, file, content) ==
  IF content.kind \in { "Unreadable", "InvalidJson", "JsonNull" }
  THEN [ map |-> map, threw |-> TRUE ]
  ELSE IF content.kind = "NoAbi"
  THEN [ map |-> map, threw |-> FALSE ]
  ELSE LET outputFile == OutputFile(file)
           withKey == IF MapHas(map, outputFile) THEN map
                      ELSE MapSet(map, outputFile, << >>)
       IN IF content.kind = "AbiNotIterable"
          THEN [ map |-> withKey, threw |-> TRUE ]
          ELSE [ map |-> MapSet(withKey, outputFile,
                                MapGet(withKey, outputFile) \o content.abi),
                 threw |-> FALSE ]

\* one iteration of `for (const entry of entries)`
ReadEntry(file, content) ==
  /\ pc = "read"
  /\ Len(entries) < MaxEntries
  /\ file \in Glob(SourceTree)
  /\ \A k \in 1..Len(entries) : entries[k].file # file
  /\ LET r == ProcessEntry(abisByOutputFile, file, content)
     IN /\ abisByOutputFile' = r.map
        /\ errors' = IF r.threw
                     THEN Append(errors, [ at |-> "processing",
                                           subject |-> << file.dir >> \o file.name ])
                     ELSE errors
  /\ entries' = Append(entries, [ file |-> file, content |-> content ])
  /\ UNCHANGED << pc, cursor, written >>
  /\ UNCHANGED << generatorVars, literalVars >>

\* the glob result is exhausted: the first loop ends
EndOfEntries ==
  /\ pc = "read"
  /\ pc' = "generate"
  /\ UNCHANGED << entries, abisByOutputFile, cursor, written, errors >>
  /\ UNCHANGED << generatorVars, literalVars >>

\* one iteration of `for (const [outputFile, abis] of abisByOutputFile.entries())`
GenerateFile ==
  /\ pc = "generate"
  /\ cursor <= Len(abisByOutputFile)
  /\ LET outputFile == abisByOutputFile[cursor].outputFile
         nodes == createContractFileForAbi(
                    removeDuplicateAbis(abisByOutputFile[cursor].abis))
     IN IF nodes.threw
        THEN /\ errors' = Append(errors, [ at |-> "generating", subject |-> outputFile ])
             /\ written' = written
        ELSE IF Len(nodes.nodes) = 0
        THEN UNCHANGED << written, errors >>
        ELSE /\ written' = Append(written, [ outputFile |-> outputFile,
                                              lineNodes |-> nodes.nodes ])
             /\ errors' = errors
  /\ cursor' = cursor + 1
  /\ UNCHANGED << pc, entries, abisByOutputFile >>
  /\ UNCHANGED << generatorVars, literalVars >>

\* the second loop ends
Finish ==
  /\ pc = "generate"
  /\ cursor > Len(abisByOutputFile)
  /\ pc' = "done"
  /\ UNCHANGED << entries, abisByOutputFile, cursor, written, errors >>
  /\ UNCHANGED << generatorVars, literalVars >>

Next ==
  \/ \E file \in SourceTree, content \in Contents : ReadEntry(file, content)
  \/ EndOfEntries
  \/ GenerateFile
  \/ Finish

Spec == Init /\ [][Next]_vars

\* -------------------------------------------------------------- generator
\* removeDuplicateAbis and createContractFileForAbi applied to a fragment list
InitGenerator ==
  /\ MainIdle /\ LiteralIdle
  /\ abis = << >> /\ uniqueAbis = << >>
  /\ lineNodes = Generated(FALSE, << >>) /\ stage = "input"

AddFragment(fragment) ==
  /\ stage = "input"
  /\ Len(abis) < MaxFragments
  /\ abis' = Append(abis, fragment)
  /\ UNCHANGED << uniqueAbis, lineNodes, stage >>
  /\ UNCHANGED << mainVars, literalVars >>

\* lines 100-101 of main
Generate ==
  /\ stage = "input"
  /\ uniqueAbis' = removeDuplicateAbis(abis)
  /\ lineNodes' = createContractFileForAbi(removeDuplicateAbis(abis))
  /\ stage' = "generated"
  /\ UNCHANGED abis
  /\ UNCHANGED << mainVars, literalVars >>

NextGenerator ==
  \/ \E fragment \in Fragments : AddFragment(fragment)
  \/ Generate

SpecGenerator == InitGenerator /\ [][NextGenerator]_vars

\* ----------------------------------------------------- literal conversion
Scalars == { VNull, VBool(TRUE), VBool(FALSE), VText(<< "view" >>), VNumber, VUndefined }

RECURSIVE Depth(_)
Depth(v) ==
  IF v.tag = "array"
  THEN 1 + (IF Len(v.items) = 0 THEN 0 ELSE Depth(v.items[1]))
  ELSE IF v.tag = "object"
  THEN 1 + (IF Len(v.entries) = 0 THEN 0 ELSE Depth(v.entries[1][2]))
  ELSE 0

InitLiteral ==
  /\ MainIdle /\ GeneratorIdle
  /\ value \in Scalars /\ literal = NoLit /\ lstage = "input"

\* the value becomes an element of a list, alone or before a scalar
WrapInList ==
  /\ lstage = "input"
  /\ Depth(value) < MaxDepth
  /\ \/ value' = VList(<< value >>)
     \/ \E s \in Scalars : value' = VList(<< value, s >>)
  /\ UNCHANGED << literal, lstage >>
  /\ UNCHANGED << mainVars, generatorVars >>

\* the value becomes the property of a record
WrapInObject ==
  /\ lstage = "input"
  /\ Depth(value) < MaxDepth
  /\ value' = VObject(<< << "stateMutability", value >> >>)
  /\ UNCHANGED << literal, lstage >>
  /\ UNCHANGED << mainVars, generatorVars >>

Convert ==
  /\ lstage = "input"
  /\ literal' = createLiteralFor(value)
  /\ lstage' = "converted"
  /\ UNCHANGED value
  /\ UNCHANGED << mainVars, generatorVars >>

NextLiteral == WrapInList \/ WrapInObject \/ Convert

SpecLiteral == InitLiteral /\ [][NextLiteral]_vars

\* ------------------------------------------------------- claims: helpers
\* the fragments with a usable name
NamedOnly(list) ==
  SelectSeq(list, LAMBDA f : f.name # Undefined /\ f.name # << >>)

\* the identifiers the aggregate export lists
IdentifiersOf(nodes) ==
  IF Len(nodes) = 0 THEN << >> ELSE nodes[Len(nodes)].elements

\* the first fragment of each canonical key, in order
RECURSIVE FirstOfEachKey(_, _)
FirstOfEachKey(list, k) ==
  IF k > Len(list) THEN << >>
  ELSE (IF \E m \in 1..(k - 1) : getAbiKey(list[m]) = getAbiKey(list[k])
        THEN << >> ELSE << list[k] >>)
       \o FirstOfEachKey(list, k + 1)

PairwiseDistinct(seq) ==
  \A i, j \in 1..Len(seq) : i # j => seq[i] # seq[j]

\* the literal a declaration of fragment f holds
LiteralOf(f) == createObjectFromObject(FragmentValue(f))

\* ----------------------------------------------------------------- C1
\* C1: after removeDuplicateAbis and createContractFileForAbi the identifiers
\* assigned to the surviving fragments of a destination group are pairwise
\* distinct.
C1_IdentifiersPairwiseDistinct ==
  stage = "generated" => PairwiseDistinct(IdentifiersOf(lineNodes.nodes))

\* ----------------------------------------------------------------- C2
\* C2: a destination group in which two fragments get the same identifier
\* fails with an error and its output file is not written.
C2_DuplicateIdentifierNotWritten ==
  \A k \in 1..(cursor - 1) :
     LET group == abisByOutputFile[k]
         ids == IdentifiersOf(
                  createContractFileForAbi(removeDuplicateAbis(group.abis)).nodes)
     IN ~PairwiseDistinct(ids) =>
          /\ \A w \in 1..Len(written) : written[w].outputFile # group.outputFile
          /\ \E e \in 1..Len(errors) :
                errors[e] = [ at |-> "generating", subject |-> group.outputFile ]

\* ----------------------------------------------------------------- C3
IsAbiList(entry) == entry.content.kind = "AbiList"

\* the named fragments the artifacts read so far contribute to outputFile,
\* the destination of an artifact being its name minus its last extension
ContributedTo(outputFile) ==
  LET from(k) == IF IsAbiList(entries[k])
                    /\ SubSeq(entries[k].file.name, 1, Len(entries[k].file.name) - 1)
                         \o << "ts" >> = outputFile
                 THEN NamedOnly(entries[k].content.abi) ELSE << >>
  IN UNION { { from(k)[m] : m \in 1..Len(from(k)) } : k \in 1..Len(entries) }

\* the declarations of a written file that hold a fragment of the given key
DeclarationsOfKey(nodes, fragments, key) ==
  { d \in 1..(Len(nodes) - 1) :
      \E f \in fragments : getAbiKey(f) = key /\ nodes[d].initializer = LiteralOf(f) }

\* C3 as stated: Foo.json and Foo.metadata.json are grouped into the single
\* destination Foo, and an identical fragment in both gives one declaration.
C3_FooMetadataSharesDestination ==
  \A i, j \in 1..Len(entries) :
     ( /\ entries[i].file.name = << "Foo", "json" >>
       /\ entries[j].file.name = << "Foo", "metadata", "json" >>
       /\ IsAbiList(entries[i]) /\ IsAbiList(entries[j]) )
     => /\ Len(abisByOutputFile) = 1
        /\ abisByOutputFile[1].outputFile = << "Foo", "ts" >>

\* C3 amended: artifacts are grouped by their file name minus its LAST
\* extension (Foo.json of two directories share destination Foo;
\* Foo.metadata.json goes to Foo.metadata), and in every written file each
\* canonical key contributed to its destination has exactly one declaration.
C3_SameBaseNameOneDeclaration ==
  /\ \A k \in 1..Len(entries) :
        IsAbiList(entries[k]) =>
          MapHas(abisByOutputFile,
                 SubSeq(entries[k].file.name, 1, Len(entries[k].file.name) - 1)
                   \o << "ts" >>)
  /\ \A k \in 1..Len(abisByOutputFile) :
        { f \in { abisByOutputFile[k].abis[m] : m \in 1..Len(abisByOutputFile[k].abis) } :
            Truthy(f.name) }
          = ContributedTo(abisByOutputFile[k].outputFile)
  /\ pc = "done" =>
       \A w \in 1..Len(written) :
          LET fragments == ContributedTo(written[w].outputFile)
          IN \A f \in fragments :
                Cardinality(DeclarationsOfKey(written[w].lineNodes, fragments,
                                              getAbiKey(f))) = 1

\* two artifacts of one base name hold the same fragment, and the file of
\* their destination holds one declaration and the aggregate export
C3_Witness ==
  /\ pc = "done"
  /\ \E i, j \in 1..Len(entries) :
        /\ i # j
        /\ entries[i].file.name = << "Foo", "json" >>
        /\ entries[j].file.name = << "Foo", "json" >>
        /\ IsAbiList(entries[i]) /\ IsAbiList(entries[j])
        /\ Len(entries[i].content.abi) = 1
        /\ entries[i].content.abi = entries[j].content.abi
        /\ Truthy(entries[i].content.abi[1].name)
  /\ Len(written) = 1
  /\ written[1].outputFile = << "Foo", "ts" >>
  /\ Len(written[1].lineNodes) = 2

\* ----------------------------------------------------------------- C4
SameMultiset(s, t) ==
  /\ Len(s) = Len(t)
  /\ \A x \in { s[k] : k \in 1..Len(s) } \cup { t[k] : k \in 1..Len(t) } :
        Cardinality({ k \in 1..Len(s) : s[k] = x })
          = Cardinality({ k \in 1..Len(t) : t[k] = x })

\* f and g differ at most in the order of their inputs
SameUpToInputOrder(f, g) ==
  /\ f.name = g.name /\ f.type = g.type /\ f.outputs = g.outputs
  /\ f.stateMutability = g.stateMutability
  /\ SameMultiset(f.inputs, g.inputs)

\* C4: two fragments that differ only by a permutation of their inputs have
\* the same canonical key, and removeDuplicateAbis keeps one fragment of
\* that key, the first of the list: the later of the two is dropped, and
\* the earlier is kept when nothing of that key precedes it.
C4_PermutedInputsDeduplicated ==
  stage = "generated" =>
    \A i, j \in 1..Len(abis) :
       (i < j /\ SameUpToInputOrder(abis[i], abis[j])) =>
          /\ getAbiKey(abis[i]) = getAbiKey(abis[j])
          /\ Cardinality({ u \in 1..Len(uniqueAbis) :
                             getAbiKey(uniqueAbis[u]) = getAbiKey(abis[i]) }) = 1
          /\ \A u \in 1..Len(uniqueAbis) :
                getAbiKey(uniqueAbis[u]) = getAbiKey(abis[i]) =>
                  \E m \in 1..i :
                     /\ uniqueAbis[u] = abis[m]
                     /\ \A n \in 1..(m - 1) : getAbiKey(abis[n]) # getAbiKey(abis[m])
          /\ (\A n \in 1..(i - 1) : getAbiKey(abis[n]) # getAbiKey(abis[i])) =>
                \A u \in 1..Len(uniqueAbis) :
                   (uniqueAbis[u] = abis[j]) => (abis[j] = abis[i])

\* a fragment and a later, different permutation of it: the first survives
C4_Witness ==
  /\ stage = "generated"
  /\ \E i, j \in 1..Len(abis) :
        /\ i < j
        /\ SameUpToInputOrder(abis[i], abis[j])
        /\ abis[i] # abis[j]
        /\ \E u \in 1..Len(uniqueAbis) : uniqueAbis[u] = abis[i]
        /\ \A u \in 1..Len(uniqueAbis) : uniqueAbis[u] # abis[j]

\* ----------------------------------------------------------------- C5
\* an artifact with invalid content: unreadable, not a JSON object, or an
\* abi value that is no list
Invalid(entry) ==
  entry.content.kind \in
    { "Unreadable", "InvalidJson", "JsonNull", "AbiNotIterable", "AbiString" }

\* the first loop of main over a list of entries
RECURSIVE GroupAll(_, _, _)
GroupAll(list, k, map) ==
  IF k > Len(list) THEN map
  ELSE GroupAll(list, k + 1, ProcessEntry(map, list[k].file, list[k].content).map)

\* the files the second loop of main writes for a Map
FilesOf(map) ==
  { [ outputFile |-> map[k].outputFile,
      lineNodes |-> createContractFileForAbi(removeDuplicateAbis(map[k].abis)).nodes ] :
    k \in { m \in 1..Len(map) :
              Len(createContractFileForAbi(removeDuplicateAbis(map[m].abis)).nodes) > 0 } }

\* C5: every valid artifact is processed, the files are those of the run
\* without the invalid artifacts, and each invalid artifact is reported
\* exactly once.
C5_InvalidArtifactsIsolatedAndReported ==
  pc = "done" =>
    /\ { written[w] : w \in 1..Len(written) }
         = FilesOf(GroupAll(SelectSeq(entries, LAMBDA e : ~Invalid(e)), 1, << >>))
    /\ \A k \in 1..Len(entries) :
          Cardinality({ e \in 1..Len(errors) :
                          errors[e] = [ at |-> "processing",
                                        subject |-> << entries[k].file.dir >>
                                                      \o entries[k].file.name ] })
            = (IF Invalid(entries[k]) THEN 1 ELSE 0)

\* ----------------------------------------------------------------- C6
\* C6: a destination group that is empty or holds only unnamed fragments
\* gets no nodes from createContractFileForAbi, and no file is written for
\* it, whatever the other destinations hold.
C6_NoNamedFragmentNoFile ==
  \A k \in 1..Len(abisByOutputFile) :
     NamedOnly(abisByOutputFile[k].abis) = << >> =>
        /\ createContractFileForAbi(removeDuplicateAbis(abisByOutputFile[k].abis))
             = Generated(FALSE, << >>)
        /\ \A w \in 1..Len(written) :
              written[w].outputFile # abisByOutputFile[k].outputFile

\* a group of unnamed fragments was passed over and another file was written
C6_Witness ==
  /\ pc = "done"
  /\ Len(written) = 1
  /\ \E k \in 1..Len(abisByOutputFile) :
        /\ Len(abisByOutputFile[k].abis) > 0
        /\ NamedOnly(abisByOutputFile[k].abis) = << >>
        /\ written[1].outputFile # abisByOutputFile[k].outputFile

\* ----------------------------------------------------------------- C7
\* C7: an unnamed fragment gives no identifier, no declaration and no
\* element of the aggregate export, and the nodes generated are those
\* generated for the list without the unnamed fragments.
C7_UnnamedFragmentsLeaveNoTrace ==
  stage = "generated" =>
    /\ ~lineNodes.threw
    /\ lineNodes = createContractFileForAbi(removeDuplicateAbis(NamedOnly(abis)))
    /\ Len(IdentifiersOf(lineNodes.nodes)) = Len(NamedOnly(uniqueAbis))
    /\ \A d \in 1..(Len(lineNodes.nodes) - 1) :
          /\ Truthy(lineNodes.nodes[d].identifier)
          /\ \A k \in 1..Len(abis) :
                lineNodes.nodes[d].initializer = LiteralOf(abis[k])
                  => Truthy(abis[k].name)

\* a list with an unnamed and a named fragment was generated
C7_Witness ==
  /\ stage = "generated"
  /\ \E k \in 1..Len(abis) : ~Truthy(abis[k].name)
  /\ \E k \in 1..Len(abis) : abis[k].name = << >>
  /\ Len(lineNodes.nodes) >= 2

\* ----------------------------------------------------------------- C8
\* every '[]' of a type rewritten to 'Array'
RECURSIVE ReplaceAll(_)
ReplaceAll(type) ==
  IF Len(type) = 0 THEN << >>
  ELSE (IF type[1] = "[]" THEN << "Array" >> ELSE << type[1] >>)
       \o ReplaceAll(Tail(type))

\* C8: the identifier of a surviving named fragment is its name when no
\* other survivor has that name, and otherwise the name, '_', and the input
\* types joined with '_', every '[]' rewritten to 'Array'.
C8_IdentifierScheme ==
  stage = "generated" =>
    LET named == NamedOnly(uniqueAbis)
        ids == IdentifiersOf(lineNodes.nodes)
    IN /\ Len(ids) = Len(named)
       /\ \A k \in 1..Len(named) :
             ids[k] =
               IF Cardinality({ m \in 1..Len(named) : named[m].name = named[k].name }) = 1
               THEN named[k].name
               ELSE named[k].name \o << "_" >>
                      \o Join([m \in 1..Len(named[k].inputs) |->
                                 ReplaceAll(named[k].inputs[m].type)], << "_" >>)

\* ----------------------------------------------------------------- C9
\* C9: for a group with a named fragment the nodes are one declaration per
\* named fragment that is the first of its canonical key, in that order,
\* and then one aggregate export, the last node, listing the declared
\* identifiers in the same order.
C9_DeclarationsThenAggregate ==
  (stage = "generated" /\ NamedOnly(abis) # << >>) =>
    LET survivors == NamedOnly(FirstOfEachKey(abis, 1))
        nodes == lineNodes.nodes
    IN /\ ~lineNodes.threw
       /\ Len(nodes) = Len(survivors) + 1
       /\ \A k \in 1..Len(survivors) :
             /\ nodes[k].kind = "VariableStatement"
             /\ nodes[k].initializer = LiteralOf(survivors[k])
       /\ nodes[Len(nodes)].kind = "ExportAssignment"
       /\ nodes[Len(nodes)].elements
            = [k \in 1..(Len(nodes) - 1) |-> nodes[k].identifier]

\* a later fragment of a key already seen was dropped and two declarations
\* precede the aggregate export
C9_Witness ==
  /\ stage = "generated"
  /\ Len(NamedOnly(abis)) = 3
  /\ Len(lineNodes.nodes) = 3
  /\ \E i, j \in 1..Len(abis) :
        i < j /\ abis[i] # abis[j] /\ getAbiKey(abis[i]) = getAbiKey(abis[j])

\* ---------------------------------------------------------------- C10
\* C10: createLiteralFor returns a literal node for every value and never
\* fails; a value that is no boolean, string, list or record becomes the
\* placeholder text literal.
C10_LiteralConversionTotal ==
  lstage = "converted" =>
    /\ literal # Threw
    /\ value.tag \in { "null", "number", "undefined" } => literal = NotYetImplemented

====
